---- MODULE Spec2Model ----
(***************************************************************************)
(* A model of the HTML-rewriting forward proxy of                          *)
(* netlify/functions/proxy.js: the Host Guard (isBlockedHost), the URL     *)
(* Rewriter (shouldRewriteAttr, maybeRewriteUrl, makeProxyUrl) and the     *)
(* request handler (exports.handler).                                      *)
(*                                                                         *)
(* JavaScript strings are TLA+ strings, read with Len, SubSeq and \o.      *)
(* JavaScript values of other types are tagged records (Undefined, JNull,  *)
(* Str, Num, Bool, Obj).                                                   *)
(***************************************************************************)
EXTENDS Integers, Sequences, FiniteSets

VARIABLES
    gHost,      \* isBlockedHost: the argument of the call
    gCalled,    \* isBlockedHost: whether the call has returned
    gResult,    \* isBlockedHost: the value returned
    rAttr,      \* maybeRewriteUrl: the attribute value of the first call
    rBase,      \* maybeRewriteUrl: the base URL of both calls
    rStage,     \* maybeRewriteUrl: the number of calls made (0, 1 or 2)
    rOut1,      \* maybeRewriteUrl(rAttr, rBase)
    rOut2,      \* maybeRewriteUrl(rOut1, rBase)
    API_KEY,    \* handler: process.env.PROXY_KEY || null, read at load
    pc,         \* handler: "idle", "fetching" (awaiting fetch) or "done"
    event,      \* handler: the event of the invocation
    steps,      \* handler: the stages the invocation has passed through
    fetches,    \* handler: the outbound fetch calls issued, in order
    upstream,   \* handler: the upstream responses fetch resolved with
    response    \* handler: the responses returned (none or one)

guardVars == <<gHost, gCalled, gResult>>
rewriteVars == <<rAttr, rBase, rStage, rOut1, rOut2>>
handlerVars == <<API_KEY, pc, event, steps, fetches, upstream, response>>

vars == <<guardVars, rewriteVars, handlerVars>>

(***************************************************************************)
(* JavaScript values                                                       *)
(***************************************************************************)
Undefined == [t |-> "undefined"]
JNull == [t |-> "null"]
Str(s) == [t |-> "string", s |-> s]
Num(n) == [t |-> "number", n |-> n]
Bool(b) == [t |-> "boolean", b |-> b]
Obj(m) == [t |-> "object", m |-> m]

\* ToBoolean, as !x, x || y, x && y and if (x) apply it.
Truthy(v) ==
    CASE v.t = "undefined" -> FALSE
      [] v.t = "null" -> FALSE
      [] v.t = "string" -> v.s # ""
      [] v.t = "number" -> v.n # 0
      [] v.t = "boolean" -> v.b
      [] OTHER -> TRUE

(***************************************************************************)
(* Strings                                                                 *)
(***************************************************************************)
UpperLetters == "ABCDEFGHIJKLMNOPQRSTUVWXYZ"
LowerLetters == "abcdefghijklmnopqrstuvwxyz"
Digits == "0123456789"

CharAt(s, i) == SubSeq(s, i, i)

\* The 1-based position of the one-character string c in s, 0 when absent.
IndexOfChar(s, c) ==
    LET hits == {i \in 1..Len(s) : CharAt(s, i) = c}
    IN  IF hits = {} THEN 0 ELSE CHOOSE i \in hits : \A j \in hits : i <= j

\* The set of the characters of s.
CharsOf(s) == {CharAt(s, i) : i \in 1..Len(s)}

DigitSet == CharsOf(Digits)
UpperSet == CharsOf(UpperLetters)
LowerSet == CharsOf(LowerLetters)

IsDigit(c) == c \in DigitSet
IsUpper(c) == c \in UpperSet
IsLower(c) == c \in LowerSet
IsAlpha(c) == IsUpper(c) \/ IsLower(c)

\* The printable ASCII characters: the code points 0x20..0x5F and
\* 0x61..0x7E.  Control characters, code points above 0x7E and the grave
\* accent (0x60, which a TLA+ string cannot hold) are outside the modelled
\* inputs.
AsciiLow == " !\"#$%&'()*+,-./0123456789:;<=>?@" \o UpperLetters \o "[\\]^_"
AsciiHigh == LowerLetters \o "{|}~"
AsciiSet == CharsOf(AsciiLow \o AsciiHigh)

\* The text s with each of its characters c replaced by the text f[c].
RECURSIVE MapChars(_, _)
MapChars(s, f) ==
    IF Len(s) = 0 THEN ""
    ELSE IF Len(s) = 1 THEN f[s]
    ELSE MapChars(SubSeq(s, 1, Len(s) \div 2), f)
            \o MapChars(SubSeq(s, (Len(s) \div 2) + 1, Len(s)), f)

LowerChar(c) ==
    IF IsUpper(c) THEN CharAt(LowerLetters, IndexOfChar(UpperLetters, c)) ELSE c

toLowerCase(s) == MapChars(s, [c \in AsciiSet |-> LowerChar(c)])

startsWith(s, p) == Len(s) >= Len(p) /\ SubSeq(s, 1, Len(p)) = p
endsWith(s, p) == Len(s) >= Len(p) /\ SubSeq(s, Len(s) - Len(p) + 1, Len(s)) = p

(***************************************************************************)
(* Percent-encoding: encodeURIComponent over the printable ASCII           *)
(* characters.                                                             *)
(***************************************************************************)
HexDigits == "0123456789ABCDEF"

\* String.prototype.charCodeAt of a one-character string.
CharCodeOf ==
    [c \in AsciiSet |->
        IF c \in CharsOf(AsciiLow) THEN 31 + IndexOfChar(AsciiLow, c)
        ELSE 96 + IndexOfChar(AsciiHigh, c)]

\* %XX, XX the code n in upper-case hexadecimal.
PercentOfCode(n) ==
    "%" \o CharAt(HexDigits, (n \div 16) + 1) \o CharAt(HexDigits, (n % 16) + 1)

PercentEncodeChar(c) == PercentOfCode(CharCodeOf[c])

\* The characters encodeURIComponent leaves alone.
UriUnreserved == CharsOf(UpperLetters \o LowerLetters \o Digits \o "-_.!~*'()")

encodeURIComponent(s) ==
    MapChars(s, [c \in AsciiSet |->
                    IF c \in UriUnreserved THEN c ELSE PercentEncodeChar(c)])

\* The value of a hexadecimal digit, -1 for another character.
HexValueOf ==
    [c \in AsciiSet |-> IndexOfChar("0123456789abcdef", LowerChar(c)) - 1]

HexValue(c) == HexValueOf[c]

(***************************************************************************)
(* new URL(input, base): the URL parser and serializer of the runtime, as  *)
(* the URL standard defines them, over printable ASCII input.  Outside the *)
(* modelled inputs: credentials (@), IPv6 hosts ([), backslashes, tabs and *)
(* newlines, file: URLs, percent-escapes inside a host, and numeric host   *)
(* parts of more than seven digits.                                        *)
(*                                                                         *)
(* A parsed URL is [ok, scheme, hasHost, host, port, opaque, path,         *)
(* hasQuery, query, hasFragment, fragment]: path is the sequence of the    *)
(* path segments, or the one opaque path when opaque holds.                *)
(***************************************************************************)
SpecialSchemes == {"http", "https", "ftp", "ws", "wss"}

DefaultPort(scheme) ==
    CASE scheme \in {"http", "ws"} -> "80"
      [] scheme \in {"https", "wss"} -> "443"
      [] scheme = "ftp" -> "21"
      [] OTHER -> ""

UrlFailure == [ok |-> FALSE]

Last(seq) == seq[Len(seq)]

\* The least position of s that holds a character of the set chars,
\* Len(s) + 1 when none does.
FirstOf(s, chars) ==
    LET hits == {i \in 1..Len(s) : CharAt(s, i) \in chars}
    IN  IF hits = {} THEN Len(s) + 1
        ELSE CHOOSE i \in hits : \A j \in hits : i <= j

RECURSIVE StripLeading(_, _)
StripLeading(s, c) ==
    IF s # "" /\ CharAt(s, 1) = c THEN StripLeading(Tail(s), c) ELSE s

RECURSIVE StripTrailing(_, _)
StripTrailing(s, c) ==
    IF s # "" /\ CharAt(s, Len(s)) = c
    THEN StripTrailing(SubSeq(s, 1, Len(s) - 1), c)
    ELSE s

\* String.prototype.trim, and the parser's removal of leading and trailing
\* spaces.
trim(s) == StripTrailing(StripLeading(s, " "), " ")

\* s cut at position i: what is before it and what is after it; all of s
\* is before it when i is 0.
CutAt(s, i) ==
    [head |-> IF i = 0 THEN s ELSE SubSeq(s, 1, i - 1),
     found |-> i > 0,
     tail |-> IF i = 0 THEN "" ELSE SubSeq(s, i + 1, Len(s))]

\* s cut at the first occurrence of the one-character string c.
CutAtChar(s, c) == CutAt(s, IndexOfChar(s, c))

\* The k-th least element of the set P of positions: 0 for k = 0, n + 1
\* when P has fewer than k elements.
NthOf(P, k, n) ==
    IF k = 0 THEN 0
    ELSE IF k > Cardinality(P) THEN n + 1
    ELSE CHOOSE i \in P : Cardinality({j \in P : j <= i}) = k

\* The pieces of s between the positions P.
SplitAt(s, P) ==
    [k \in 1..(Cardinality(P) + 1) |->
        SubSeq(s, NthOf(P, k - 1, Len(s)) + 1, NthOf(P, k, Len(s)) - 1)]

\* String.prototype.split(sep) for a one-character separator.
split(s, sep) == SplitAt(s, {i \in 1..Len(s) : CharAt(s, i) = sep})

\* Array.prototype.join(sep).
RECURSIVE join(_, _)
join(parts, sep) ==
    IF Len(parts) = 0 THEN ""
    ELSE IF Len(parts) = 1 THEN parts[1]
    ELSE join(SubSeq(parts, 1, Len(parts) \div 2), sep) \o sep
            \o join(SubSeq(parts, (Len(parts) \div 2) + 1, Len(parts)), sep)

IsSchemeChar(c) == IsAlpha(c) \/ IsDigit(c) \/ c \in {"+", "-", "."}
NonSchemeChars == {c \in AsciiSet : ~IsSchemeChar(c)}

\* The position of the colon that ends a scheme at the start of s, 0 when s
\* does not start with a scheme.
SchemeEndAt(s, k) == IF k <= Len(s) /\ CharAt(s, k) = ":" THEN k ELSE 0
SchemeEnd(s) ==
    IF s = "" \/ ~IsAlpha(CharAt(s, 1)) THEN 0
    ELSE SchemeEndAt(s, FirstOf(s, NonSchemeChars))

\* Percent-encode the characters of s that are in set.
EncodeSet(s, set) ==
    MapChars(s, [c \in AsciiSet |-> IF c \in set THEN PercentEncodeChar(c) ELSE c])

FragmentEncodeSet == CharsOf(" \"<>")
QueryEncodeSet == CharsOf(" \"#<>")
SpecialQueryEncodeSet == QueryEncodeSet \cup {"'"}
PathEncodeSet == QueryEncodeSet \cup CharsOf("?{}")
ForbiddenHostChars == CharsOf(" #/:<>?@[\\]^|")
ForbiddenDomainChars == ForbiddenHostChars \cup {"%"}

RECURSIVE NumberToString(_)
NumberToString(n) ==
    IF n < 10 THEN CharAt(Digits, n + 1)
    ELSE NumberToString(n \div 10) \o CharAt(Digits, (n % 10) + 1)

RECURSIVE RadixValue(_, _)
RadixValue(s, r) ==
    IF s = "" THEN 0
    ELSE r * RadixValue(SubSeq(s, 1, Len(s) - 1), r) + HexValue(CharAt(s, Len(s)))

MaxNumberDigits == 7

\* The radix the prefix of an IPv4 part selects, and the digits after it.
IPv4Radix(part) ==
    IF Len(part) >= 2 /\ SubSeq(part, 1, 2) \in {"0x", "0X"} THEN 16
    ELSE IF Len(part) >= 2 /\ CharAt(part, 1) = "0" THEN 8
    ELSE 10

IPv4Digits(part, r) ==
    IF r = 16 THEN SubSeq(part, 3, Len(part))
    ELSE IF r = 8 THEN Tail(part)
    ELSE part

\* The value of the digits in radix r, -1 when one is not a digit of r.
RadixNumber(digits, r) ==
    IF \E i \in 1..Len(digits) : HexValue(CharAt(digits, i)) \notin 0..(r - 1)
    THEN -1
    ELSE IF Len(digits) > MaxNumberDigits THEN -1
    ELSE RadixValue(digits, r)

\* The IPv4 number parser: the value of a part, -1 on failure.
ParseIPv4Number(part) ==
    IF part = "" THEN -1
    ELSE RadixNumber(IPv4Digits(part, IPv4Radix(part)), IPv4Radix(part))

\* The parts without the one empty label a trailing dot leaves.
DropLastEmpty(parts) ==
    IF Len(parts) > 1 /\ Last(parts) = ""
    THEN SubSeq(parts, 1, Len(parts) - 1)
    ELSE parts

HostParts(host) == DropLastEmpty(split(host, "."))

IsNumberPart(last) ==
    /\ last # ""
    /\ \/ \A i \in 1..Len(last) : IsDigit(CharAt(last, i))
       \/ ParseIPv4Number(last) >= 0

EndsInNumber(host) == IsNumberPart(Last(HostParts(host)))

Pow256(k) == CASE k = 0 -> 1 [] k = 1 -> 256 [] k = 2 -> 65536 [] k = 3 -> 16777216

\* Octet j of the address the numbers give: the last number fills the
\* octets the numbers before it leave.
IPv4Octet(nums, j) ==
    IF j < Len(nums) THEN nums[j]
    ELSE (Last(nums) \div Pow256(4 - j)) % 256

IPv4OfNumbers(nums) ==
    IF Len(nums) > 4 \/ \E i \in 1..Len(nums) : nums[i] < 0 THEN ""
    ELSE IF \E i \in 1..(Len(nums) - 1) : nums[i] > 255 THEN ""
    ELSE IF Len(nums) > 1 /\ Last(nums) >= Pow256(5 - Len(nums)) THEN ""
    ELSE join([j \in 1..4 |-> NumberToString(IPv4Octet(nums, j))], ".")

IPv4Numbers(parts) == [i \in 1..Len(parts) |-> ParseIPv4Number(parts[i])]

\* The IPv4 parser and serializer: the dotted-decimal host, "" on failure.
ParseIPv4(host) == IPv4OfNumbers(IPv4Numbers(HostParts(host)))

HostOrFailure(host) ==
    IF host = "" THEN UrlFailure ELSE [ok |-> TRUE, host |-> host]

\* The host parser on the lower-cased domain of a special URL.
ParseDomain(domain) ==
    IF domain = "" THEN UrlFailure
    ELSE IF \E i \in 1..Len(domain) : CharAt(domain, i) \in ForbiddenDomainChars
    THEN UrlFailure
    ELSE IF EndsInNumber(domain) THEN HostOrFailure(ParseIPv4(domain))
    ELSE [ok |-> TRUE, host |-> domain]

\* The host parser: [ok, host].
ParseHost(input, special) ==
    IF special THEN ParseDomain(toLowerCase(input))
    ELSE IF \E i \in 1..Len(input) : CharAt(input, i) \in ForbiddenHostChars
    THEN UrlFailure
    ELSE [ok |-> TRUE, host |-> input]

\* The port parser: [ok, port], port the decimal numeral or "".
ParsePort(portStr) ==
    IF portStr = "" THEN [ok |-> TRUE, port |-> ""]
    ELSE IF /\ \A i \in 1..Len(portStr) : IsDigit(CharAt(portStr, i))
            /\ Len(StripLeading(portStr, "0")) <= 5
            /\ RadixValue(StripLeading(portStr, "0"), 10) <= 65535
    THEN [ok |-> TRUE,
          port |-> NumberToString(RadixValue(StripLeading(portStr, "0"), 10))]
    ELSE UrlFailure

IsSingleDot(seg) == toLowerCase(seg) \in {".", "%2e"}
IsDoubleDot(seg) == toLowerCase(seg) \in {"..", ".%2e", "%2e.", "%2e%2e"}

ShortenPath(path) ==
    IF Len(path) = 0 THEN path ELSE SubSeq(path, 1, Len(path) - 1)

\* The path state on one segment; last holds for the last segment.
PathStep(path, seg, last) ==
    IF IsDoubleDot(seg)
    THEN (IF last THEN Append(ShortenPath(path), "") ELSE ShortenPath(path))
    ELSE IF IsSingleDot(seg)
    THEN (IF last THEN Append(path, "") ELSE path)
    ELSE Append(path, seg)

\* The path state: the segments segs[i..], appended to path.
RECURSIVE PathState(_, _, _)
PathState(path, segs, i) ==
    IF i > Len(segs) THEN path
    ELSE PathState(PathStep(path, EncodeSet(segs[i], PathEncodeSet), i = Len(segs)),
                   segs, i + 1)

\* The path, query and fragment of what f and q cut: f at the first "#", q
\* what is before it at the first "?".
TailParts(f, q) ==
    [path |-> q.head, hasQuery |-> q.found, query |-> q.tail,
     hasFragment |-> f.found, fragment |-> f.tail]

CutQuery(f) == TailParts(f, CutAtChar(f.head, "?"))

\* s cut at its first "#" and, before it, at its first "?".
CutTail(s) == CutQuery(CutAtChar(s, "#"))

EncodeQuery(q, scheme) ==
    EncodeSet(q, IF scheme \in SpecialSchemes THEN SpecialQueryEncodeSet
                 ELSE QueryEncodeSet)

\* The URL of the given scheme, authority and path, with the query and the
\* fragment of cut.
UrlOf(scheme, hasHost, host, port, opaque, path, cut) ==
    [ok |-> TRUE, scheme |-> scheme, hasHost |-> hasHost, host |-> host,
     port |-> port, opaque |-> opaque, path |-> path,
     hasQuery |-> cut.hasQuery, query |-> EncodeQuery(cut.query, scheme),
     hasFragment |-> cut.hasFragment,
     fragment |-> EncodeSet(cut.fragment, FragmentEncodeSet)]

\* The path of a URL that is not opaque: the segments of the text p,
\* appended to path0.
PathOf(scheme, path0, p) ==
    IF scheme \notin SpecialSchemes /\ p = "" THEN path0
    ELSE PathState(path0, split(IF startsWith(p, "/") THEN Tail(p) ELSE p, "/"), 1)

TailOf(scheme, hasHost, host, port, path0, cut) ==
    UrlOf(scheme, hasHost, host, port, FALSE, PathOf(scheme, path0, cut.path), cut)

\* The states from the path start state on: s is what follows the authority
\* (or the scheme, when there is none); path0 is the path to append to.
ParseTail(scheme, hasHost, host, port, path0, s) ==
    TailOf(scheme, hasHost, host, port, path0, CutTail(s))

\* The URL of the parsed host h and port p, and the text rest after them.
WithAuthority(scheme, h, p, rest) ==
    IF ~h.ok \/ ~p.ok THEN UrlFailure
    ELSE ParseTail(scheme, TRUE, h.host,
                   IF p.port = DefaultPort(scheme) THEN "" ELSE p.port,
                   <<>>, rest)

\* The host and port states: hp is the authority cut at its first colon.
HostAndPort(scheme, hp, rest) ==
    IF hp.found /\ hp.head = "" THEN UrlFailure
    ELSE WithAuthority(scheme, ParseHost(hp.head, scheme \in SpecialSchemes),
                       ParsePort(hp.tail), rest)

AuthorityAt(scheme, s, stop) ==
    HostAndPort(scheme, CutAtChar(SubSeq(s, 1, stop - 1), ":"),
                SubSeq(s, stop, Len(s)))

\* The authority, host and port states: s is what follows the slashes.
ParseAuthority(scheme, s) == AuthorityAt(scheme, s, FirstOf(s, {"/", "?", "#"}))

\* The relative state on s cut into cut.
RelativeTo(s, base, cut) ==
    IF base.opaque
    THEN IF startsWith(s, "#")
         THEN [base EXCEPT !.hasFragment = TRUE,
                           !.fragment = EncodeSet(cut.fragment, FragmentEncodeSet)]
         ELSE UrlFailure
    ELSE IF startsWith(s, "//")
    THEN ParseAuthority(base.scheme,
                        IF base.scheme \in SpecialSchemes THEN StripLeading(s, "/")
                        ELSE SubSeq(s, 3, Len(s)))
    ELSE IF startsWith(s, "/")
    THEN TailOf(base.scheme, base.hasHost, base.host, base.port, <<>>, cut)
    ELSE IF cut.path = ""
    THEN [base EXCEPT
            !.hasQuery = cut.hasQuery \/ base.hasQuery,
            !.query = IF cut.hasQuery THEN EncodeQuery(cut.query, base.scheme)
                      ELSE base.query,
            !.hasFragment = cut.hasFragment,
            !.fragment = EncodeSet(cut.fragment, FragmentEncodeSet)]
    ELSE UrlOf(base.scheme, base.hasHost, base.host, base.port, FALSE,
               PathState(ShortenPath(base.path), split(cut.path, "/"), 1), cut)

\* The relative state and the relative slash state: s has no scheme.
ParseRelative(s, base) == RelativeTo(s, base, CutTail(s))

\* The states after the scheme state: rest is what follows the colon.
AfterScheme(scheme, rest, base) ==
    IF scheme \in SpecialSchemes
    THEN IF base.ok /\ base.scheme = scheme
         THEN ParseRelative(rest, base)
         ELSE ParseAuthority(scheme, StripLeading(rest, "/"))
    ELSE IF startsWith(rest, "//")
    THEN ParseAuthority(scheme, SubSeq(rest, 3, Len(rest)))
    ELSE IF startsWith(rest, "/")
    THEN ParseTail(scheme, FALSE, "", "", <<>>, rest)
    ELSE UrlOf(scheme, FALSE, "", "", TRUE, <<CutTail(rest).path>>, CutTail(rest))

\* The scheme start state and the scheme state: k is the position of the
\* colon that ends the scheme, 0 when s has no scheme.
SchemeState(s, k, base) ==
    IF k = 0
    THEN IF base.ok THEN ParseRelative(s, base) ELSE UrlFailure
    ELSE AfterScheme(toLowerCase(SubSeq(s, 1, k - 1)), SubSeq(s, k + 1, Len(s)),
                     base)

ParseTrimmed(s, base) == SchemeState(s, SchemeEnd(s), base)

\* The basic URL parser.  base is a parsed URL, or UrlFailure for no base.
ParseUrl(input, base) == ParseTrimmed(trim(input), base)

RECURSIVE SerializePath(_)
SerializePath(path) ==
    IF Len(path) = 0 THEN ""
    ELSE "/" \o path[1] \o SerializePath(Tail(path))

\* URL.prototype.href: the URL serializer.
href(u) ==
    u.scheme \o ":"
        \o (IF u.hasHost
            THEN "//" \o u.host \o (IF u.port = "" THEN "" ELSE ":" \o u.port)
            ELSE IF ~u.opaque /\ Len(u.path) > 1 /\ u.path[1] = "" THEN "/."
            ELSE "")
        \o (IF u.opaque THEN u.path[1] ELSE SerializePath(u.path))
        \o (IF u.hasQuery THEN "?" \o u.query ELSE "")
        \o (IF u.hasFragment THEN "#" \o u.fragment ELSE "")

\* URL.prototype.hostname
UrlHostname(u) == IF u.hasHost THEN u.host ELSE ""

\* new URL(input): [ok |-> FALSE] where the constructor throws TypeError.
NewUrl(input) == ParseUrl(input, UrlFailure)

\* The parser on input with the parsed base, which failed when base did.
ParseWithBase(input, base) ==
    IF ~base.ok THEN UrlFailure ELSE ParseUrl(input, base)

\* new URL(input, base), base a string.
NewUrlWithBase(input, base) == ParseWithBase(input, NewUrl(base))

(***************************************************************************)
(* Host Guard                                                              *)
(***************************************************************************)
\* /^localhost$/i
RxLocalhost(h) == toLowerCase(h) = "localhost"
\* /^127\./
Rx127(h) == startsWith(h, "127.")
\* /^10\./
Rx10(h) == startsWith(h, "10.")
\* /^192\.168\./
Rx192168(h) == startsWith(h, "192.168.")
\* A mutant of Rx172: the last alternative reads 3[0-2].
Rx172Wide(h) ==
    /\ Len(h) >= 7
    /\ SubSeq(h, 1, 4) = "172."
    /\ \/ CharAt(h, 5) = "1" /\ CharAt(h, 6) \in {"6", "7", "8", "9"}
       \/ CharAt(h, 5) = "2" /\ IsDigit(CharAt(h, 6))
       \/ CharAt(h, 5) = "3" /\ CharAt(h, 6) \in {"0", "1", "2"}
    /\ CharAt(h, 7) = "."
\* /^172\.(1[6-9]|2[0-9]|3[0-1])\./
Rx172(h) ==
    /\ Len(h) >= 7
    /\ SubSeq(h, 1, 4) = "172."
    /\ \/ CharAt(h, 5) = "1" /\ CharAt(h, 6) \in {"6", "7", "8", "9"}
       \/ CharAt(h, 5) = "2" /\ IsDigit(CharAt(h, 6))
       \/ CharAt(h, 5) = "3" /\ CharAt(h, 6) \in {"0", "1"}
    /\ CharAt(h, 7) = "."
\* /\.local$/i
RxDotLocal(h) == endsWith(toLowerCase(h), ".local")
\* /^0\./
Rx0(h) == startsWith(h, "0.")

\* BLOCKED_HOST_PATTERNS[i].test(h)
BLOCKED_HOST_PATTERNS(i, h) ==
    CASE i = 1 -> RxLocalhost(h)
      [] i = 2 -> Rx127(h)
      [] i = 3 -> Rx10(h)
      [] i = 4 -> Rx192168(h)
      [] i = 5 -> Rx172(h)
      [] i = 6 -> RxDotLocal(h)
      [] i = 7 -> Rx0(h)

NumBlockedPatterns == 7

\* hostname is a JavaScript value: a string in the handler, possibly
\* undefined or null for another caller.
isBlockedHost(hostname) ==
    IF ~Truthy(hostname) THEN TRUE
    ELSE \E i \in 1..NumBlockedPatterns : BLOCKED_HOST_PATTERNS(i, hostname.s)

(***************************************************************************)
(* URL Rewriter                                                            *)
(***************************************************************************)
ProxyPath == "/.netlify/functions/proxy?url="

\* A mutant of makeProxyUrl: the target is embedded without encoding.
makeProxyUrlRaw(target) == ProxyPath \o target

makeProxyUrl(target) == ProxyPath \o encodeURIComponent(target)

NonNavigablePrefixes == {"data:", "javascript:", "mailto:", "#"}

shouldRewriteAttr(val) ==
    IF val = "" THEN FALSE
    ELSE LET v == toLowerCase(trim(val))
         IN  ~(\E p \in NonNavigablePrefixes : startsWith(v, p))

\* The try block of maybeRewriteUrl on abs = new URL(attrValue, baseUrl): the
\* catch clause returns attrValue when new URL throws.
ProxyUrlOf(abs, attrValue) ==
    IF abs.ok THEN makeProxyUrl(href(abs)) ELSE attrValue

maybeRewriteUrl(attrValue, baseUrl) ==
    IF attrValue = "" THEN attrValue
    ELSE IF ~shouldRewriteAttr(attrValue) THEN attrValue
    ELSE ProxyUrlOf(NewUrlWithBase(attrValue, baseUrl), attrValue)

(***************************************************************************)
(* JSON.parse over the JSON texts without white space or escapes that are  *)
(* a scalar (null, true, false, a decimal integer, a string) or an object  *)
(* whose members are scalars.  Arrays, nested objects, white space, escape *)
(* sequences and fractions are outside the modelled inputs.                *)
(***************************************************************************)
JsonFailure == [ok |-> FALSE]
Quote == "\""

JsonScalar(s) ==
    IF s = "null" THEN [ok |-> TRUE, v |-> JNull]
    ELSE IF s = "true" THEN [ok |-> TRUE, v |-> Bool(TRUE)]
    ELSE IF s = "false" THEN [ok |-> TRUE, v |-> Bool(FALSE)]
    ELSE IF /\ s # "" /\ Len(s) <= MaxNumberDigits
            /\ \A i \in 1..Len(s) : IsDigit(CharAt(s, i))
            /\ (Len(s) > 1 => CharAt(s, 1) # "0")
    THEN [ok |-> TRUE, v |-> Num(RadixValue(s, 10))]
    ELSE IF /\ Len(s) >= 2 /\ CharAt(s, 1) = Quote /\ CharAt(s, Len(s)) = Quote
            /\ \A i \in 2..(Len(s) - 1) : CharAt(s, i) \notin {Quote, "\\"}
    THEN [ok |-> TRUE, v |-> Str(SubSeq(s, 2, Len(s) - 1))]
    ELSE JsonFailure

\* The map m with key mapped to v.
Put(m, key, v) == [k \in DOMAIN m \cup {key} |-> IF k = key THEN v ELSE m[k]]

\* The position in val of the last character of the value val starts with.
ClosingQuote(i, n) == IF i = 0 THEN n ELSE i + 1
ValueEnd(val) ==
    IF startsWith(val, Quote) THEN ClosingQuote(IndexOfChar(Tail(val), Quote), Len(val))
    ELSE FirstOf(val, {","}) - 1

\* The members s of an object, added to the map m; a later member of the
\* same name replaces an earlier one.
RECURSIVE JsonMembers(_, _)

\* The member of name key and parsed value sc, and the text after it.
JsonMember(key, sc, after, m) ==
    IF ~sc.ok THEN JsonFailure
    ELSE IF after = "" THEN [ok |-> TRUE, v |-> Obj(Put(m, key, sc.v))]
    ELSE IF startsWith(after, ",") THEN JsonMembers(Tail(after), Put(m, key, sc.v))
    ELSE JsonFailure

JsonValueAt(key, val, valEnd, m) ==
    JsonMember(key, JsonScalar(SubSeq(val, 1, valEnd)),
               SubSeq(val, valEnd + 1, Len(val)), m)

\* c is the text after the opening quote of a name, cut at the closing one.
JsonName(c, m) ==
    IF ~c.found \/ ~startsWith(c.tail, ":") THEN JsonFailure
    ELSE JsonValueAt(c.head, Tail(c.tail), ValueEnd(Tail(c.tail)), m)

JsonMembers(s, m) ==
    IF ~startsWith(s, Quote) THEN JsonFailure
    ELSE JsonName(CutAtChar(Tail(s), Quote), m)

\* JSON.parse(s): [ok |-> TRUE, v |-> value], or [ok |-> FALSE] where it
\* throws SyntaxError.
JSONparse(s) ==
    IF startsWith(s, "{") /\ endsWith(s, "}") /\ Len(s) >= 2
    THEN IF Len(s) = 2 THEN [ok |-> TRUE, v |-> Obj(<<>>)]
         ELSE JsonMembers(SubSeq(s, 2, Len(s) - 1), <<>>)
    ELSE JsonScalar(s)

\* String(v), for the values a target can be.
JsString(v) ==
    CASE v.t = "string" -> v.s
      [] v.t = "number" -> NumberToString(v.n)
      [] v.t = "boolean" -> IF v.b THEN "true" ELSE "false"
      [] v.t = "object" -> "[object Object]"
      [] v.t = "null" -> "null"
      [] OTHER -> "undefined"

(***************************************************************************)
(* Objects.  An object with string values (query parameters, the event's   *)
(* headers) is a function from its keys to strings; an object whose key    *)
(* order matters (outHeaders, the entries of a Headers) is a sequence of   *)
(* [k, v] records with distinct keys.                                      *)
(***************************************************************************)
\* m[k]: the string, or undefined.
Get(m, k) == IF k \in DOMAIN m THEN Str(m[k]) ELSE Undefined

\* a || b
Or(a, b) == IF Truthy(a) THEN a ELSE b

\* delete m[k] for each k of keys
Delete(m, keys) == [k \in DOMAIN m \ keys |-> m[k]]

OmKeys(om) == [i \in 1..Len(om) |-> om[i].k]
OmHas(om, k) == \E i \in 1..Len(om) : om[i].k = k
OmGet(om, k) == om[CHOOSE i \in 1..Len(om) : om[i].k = k].v
\* om[k] = v: in place when the key exists, at the end otherwise.
OmSet(om, k, v) ==
    IF OmHas(om, k)
    THEN [i \in 1..Len(om) |-> IF om[i].k = k THEN [k |-> k, v |-> v] ELSE om[i]]
    ELSE Append(om, [k |-> k, v |-> v])

(***************************************************************************)
(* exports.handler                                                         *)
(*                                                                         *)
(* An event is [httpMethod, queryStringParameters, headers, body,          *)
(* isBase64Encoded]; queryStringParameters and headers are JNull or        *)
(* Obj(map), body is Undefined or Str.  A returned value is [statusCode,   *)
(* headers, body, isBase64Encoded]: headers is an ordered object, empty    *)
(* when the returned value has no headers; body is a tagged record, a      *)
(* text, the link-bearing attribute values of the serialized document, or  *)
(* the base64 text of the upstream bytes.                                  *)
(***************************************************************************)
TextBody(t) == [kind |-> "text", text |-> t]
HtmlBody(links) == [kind |-> "html", links |-> links]
Base64Body(bytes) == [kind |-> "base64", bytes |-> bytes]

AllowOrigin == "access-control-allow-origin"
ExposeHeaders == "access-control-expose-headers"

\* A mutant of IsPreflight: the method is compared in the wrong case.
IsPreflightLower(ev) == ev.httpMethod = "options"

IsPreflight(ev) == ev.httpMethod = "OPTIONS"

PreflightResponse ==
    [statusCode |-> 204,
     headers |-> <<[k |-> AllowOrigin, v |-> "*"],
                   [k |-> "access-control-allow-methods",
                    v |-> "GET,POST,PUT,PATCH,DELETE,OPTIONS"],
                   [k |-> "access-control-allow-headers",
                    v |-> "Content-Type,Authorization,X-Proxy-Key"]>>,
     body |-> TextBody(""), isBase64Encoded |-> FALSE]

\* A returned value without headers.
PlainResponse(status, text) ==
    [statusCode |-> status, headers |-> <<>>, body |-> TextBody(text),
     isBase64Encoded |-> FALSE]

\* The catch clause of the handler.
ErrorResponse(err) ==
    [statusCode |-> 500, headers |-> <<[k |-> AllowOrigin, v |-> "*"]>>,
     body |-> TextBody("Proxy error: " \o err), isBase64Encoded |-> FALSE]

\* event.queryStringParameters || {}
QueryParams(ev) ==
    IF Truthy(ev.queryStringParameters) THEN ev.queryStringParameters.m ELSE <<>>

\* v.url, v a value JSON.parse returned that is not null.
UrlProperty(v) ==
    IF v.t = "object" /\ "url" \in DOMAIN v.m THEN v.m["url"] ELSE Undefined

\* qs.url || (event.body && JSON.parse(event.body).url):
\* [threw |-> "" or the error, target |-> the value].
ExtractTarget(ev) ==
    LET qsUrl == Get(QueryParams(ev), "url")
    IN  IF Truthy(qsUrl) THEN [threw |-> "", target |-> qsUrl]
        ELSE IF ~Truthy(ev.body) THEN [threw |-> "", target |-> ev.body]
        ELSE LET parsed == JSONparse(ev.body.s)
             IN  IF ~parsed.ok
                 THEN [threw |-> "SyntaxError: Unexpected token", target |-> Undefined]
                 ELSE IF parsed.v = JNull
                 THEN [threw |-> "TypeError: Cannot read properties of null",
                       target |-> Undefined]
                 ELSE [threw |-> "", target |-> UrlProperty(parsed.v)]

\* (event.headers && (event.headers['x-proxy-key']
\*                    || event.headers['X-Proxy-Key'])) || ''
HeaderKey(ev) ==
    IF ~Truthy(ev.headers) THEN ""
    ELSE Or(Or(Get(ev.headers.m, "x-proxy-key"), Get(ev.headers.m, "X-Proxy-Key")),
            Str("")).s

\* qs.key || ''
QsKey(ev) == Or(Get(QueryParams(ev), "key"), Str("")).s

\* The optional API key enforcement: whether the handler returns 401.
KeyRejected(ev, apiKey) ==
    Truthy(apiKey) /\ HeaderKey(ev) # apiKey.s /\ QsKey(ev) # apiKey.s

\* A mutant of CheckHost: the Host Guard is not consulted.
CheckHostUnguarded(targetUrl) ==
    IF ~targetUrl.ok THEN "invalid" ELSE "ok"

\* The catch clause around new URL(target), and
\* isBlockedHost(targetUrl.hostname).
CheckHost(targetUrl) ==
    IF ~targetUrl.ok THEN "invalid"
    ELSE IF isBlockedHost(Str(UrlHostname(targetUrl))) THEN "blocked"
    ELSE "ok"

\* new URL(target) and the host check: "invalid", "blocked" or "ok".
ValidateTarget(target) == CheckHost(NewUrl(JsString(target)))

\* incomingHeaders: a copy of event.headers || {} without host and Host.
IncomingHeaders(ev) ==
    Delete(IF Truthy(ev.headers) THEN ev.headers.m ELSE <<>>, {"host", "Host"})

\* The body of the outbound request.
FetchBody(ev) ==
    IF Truthy(ev.body) /\ ev.httpMethod \notin {"GET", "HEAD"}
    THEN [t |-> "body", base64Decoded |-> ev.isBase64Encoded, s |-> ev.body.s]
    ELSE Undefined

FetchCall(ev, target) ==
    [url |-> JsString(target), method |-> ev.httpMethod,
     headers |-> IncomingHeaders(ev), body |-> FetchBody(ev),
     redirect |-> "follow"]

\* The handler returned r after the stages st, without a fetch.
Returned(st, r) == [steps |-> st, response |-> <<r>>, fetches |-> <<>>]

\* The handler from the validation of the target on, after the stages st.
AfterKey(ev, target, st, verdict) ==
    IF verdict = "invalid"
    THEN Returned(st \o <<"Erroring">>, PlainResponse(400, "Invalid target URL"))
    ELSE IF verdict = "blocked"
    THEN Returned(st \o <<"Erroring">>, PlainResponse(403, "Forbidden host"))
    ELSE [steps |-> st \o <<"Fetching">>, response |-> <<>>,
          fetches |-> <<FetchCall(ev, target)>>]

\* The handler after the target extraction x, which threw or gave a value.
AfterExtract(ev, apiKey, x) ==
    IF x.threw # ""
    THEN Returned(<<"ReceivingRequest", "ExtractingTarget", "Erroring">>,
                  ErrorResponse(x.threw))
    ELSE IF ~Truthy(x.target)
    THEN Returned(<<"ReceivingRequest", "ExtractingTarget", "Erroring">>,
                  PlainResponse(400, "Missing url parameter"))
    ELSE IF KeyRejected(ev, apiKey)
    THEN Returned(<<"ReceivingRequest", "ExtractingTarget", "ValidatingKey",
                    "Erroring">>,
                  PlainResponse(401, "Unauthorized: invalid proxy key"))
    ELSE AfterKey(ev, x.target,
                  <<"ReceivingRequest", "ExtractingTarget">>
                      \o (IF Truthy(apiKey) THEN <<"ValidatingKey">> ELSE <<>>)
                      \o <<"ValidatingTarget">>,
                  ValidateTarget(x.target))

\* The handler up to its first await: the stages passed, the value returned
\* (none when the handler awaits fetch) and the fetch calls issued.
HandlerStart(ev, apiKey) ==
    IF IsPreflight(ev)
    THEN Returned(<<"ReceivingRequest", "Responding">>, PreflightResponse)
    ELSE AfterExtract(ev, apiKey, ExtractTarget(ev))

SkippedHeaders ==
    {"content-security-policy", "content-security-policy-report-only",
     "x-frame-options", "set-cookie", "transfer-encoding"}

\* A mutant of CopyHeaders: set-cookie is not in the skipped set.
RECURSIVE CopyHeadersCookie(_)
CopyHeadersCookie(entries) ==
    IF Len(entries) = 0 THEN <<>>
    ELSE LET e == entries[Len(entries)]
             before == CopyHeadersCookie(SubSeq(entries, 1, Len(entries) - 1))
         IN  IF toLowerCase(e.k) \in SkippedHeaders \ {"set-cookie"} THEN before
             ELSE OmSet(before, e.k, e.v)

\* The loop over Object.entries(Object.fromEntries(res.headers)).
RECURSIVE CopyHeaders(_)
CopyHeaders(entries) ==
    IF Len(entries) = 0 THEN <<>>
    ELSE LET e == entries[Len(entries)]
             before == CopyHeaders(SubSeq(entries, 1, Len(entries) - 1))
         IN  IF toLowerCase(e.k) \in SkippedHeaders THEN before
             ELSE OmSet(before, e.k, e.v)

\* outHeaders, before the content type is set.
OutHeaders(res) ==
    LET copied == OmSet(CopyHeaders(res.headers), AllowOrigin, "*")
    IN  OmSet(copied, ExposeHeaders, join(OmKeys(copied), ","))

\* res.headers.get('content-type') || ''
ContentType(res) ==
    IF OmHas(res.headers, "content-type") THEN OmGet(res.headers, "content-type")
    ELSE ""

isHtmlContentType(contentType) ==
    IF contentType = "" THEN FALSE
    ELSE toLowerCase(trim(split(contentType, ";")[1])) = "text/html"

\* The rewrite of the link-bearing attributes of the parsed document: links
\* are the values of those attributes in document order.  An attribute with
\* an empty value is left alone.  The meta refresh rewrite and the banner
\* are not represented in the body.
RewriteLinks(links, baseUrl) ==
    [i \in 1..Len(links) |->
        IF links[i] = "" THEN links[i] ELSE maybeRewriteUrl(links[i], baseUrl)]

\* The handler after fetch resolved with res = [status, headers, url, links,
\* bytes]: headers are the entries of res.headers, links the link-bearing
\* attribute values of the body read as HTML, bytes the body as bytes.
HandlerRelay(res, target) ==
    LET contentType == ContentType(res)
        baseUrl == IF res.url # "" THEN res.url ELSE target
    IN  IF isHtmlContentType(contentType)
        THEN [statusCode |-> res.status,
              headers |-> OmSet(OutHeaders(res), "content-type",
                                "text/html; charset=utf-8"),
              body |-> HtmlBody(RewriteLinks(res.links, baseUrl)),
              isBase64Encoded |-> FALSE]
        ELSE [statusCode |-> res.status,
              headers |-> IF contentType # ""
                          THEN OmSet(OutHeaders(res), "content-type", contentType)
                          ELSE OutHeaders(res),
              body |-> Base64Body(res.bytes),
              isBase64Encoded |-> TRUE]

(***************************************************************************)
(* The inputs of the Host Guard                                            *)
(***************************************************************************)
MaxHostTokens == 3

HostTokens ==
    {"localhost", "LocalHost", "127.", "10.", "192.168.", "172.", "0.",
     "16", "19", "20", "31", "32", "15", "160", ".", ".local", ".LOCAL", "x"}

RECURSIVE TokenStrings(_, _)
TokenStrings(tokens, n) ==
    IF n = 0 THEN {""}
    ELSE LET shorter == TokenStrings(tokens, n - 1)
         IN  shorter \cup {p \o t : p \in shorter, t \in tokens}

BlockedExamples ==
    {"localhost", "127.0.0.1", "10.0.0.5", "192.168.1.1", "172.16.0.1",
     "172.31.255.255", "foo.local", "0.0.0.0"}
AllowedExamples == {"example.com", "8.8.8.8", "172.32.0.1", "172.15.0.1"}

HostInputs ==
    {Undefined, JNull}
        \cup {Str(h) : h \in TokenStrings(HostTokens, MaxHostTokens)}
        \cup {Str(h) : h \in BlockedExamples \cup AllowedExamples}

GuardIdle == gHost = Undefined /\ gCalled = FALSE /\ gResult = FALSE
RewriteIdle ==
    rAttr = "" /\ rBase = "" /\ rStage = 0 /\ rOut1 = "" /\ rOut2 = ""
HandlerIdle ==
    /\ API_KEY = JNull /\ pc = "idle" /\ event = <<>> /\ steps = <<>>
    /\ fetches = <<>> /\ upstream = <<>> /\ response = <<>>

InitGuard ==
    /\ gHost \in HostInputs /\ gCalled = FALSE /\ gResult = FALSE
    /\ RewriteIdle /\ HandlerIdle

CallIsBlockedHost ==
    /\ ~gCalled
    /\ gCalled' = TRUE
    /\ gResult' = isBlockedHost(gHost)
    /\ UNCHANGED <<gHost, rewriteVars, handlerVars>>

NextGuard == CallIsBlockedHost

SpecGuard == InitGuard /\ [][NextGuard]_vars

(***************************************************************************)
(* The inputs of the handler                                               *)
(***************************************************************************)
Secret == "s3cr3t"

\* The functions from the subsets of keys of at most n elements to values,
\* each key k mapped into allowed(k).
Maps(keys, n, values, allowed(_)) ==
    UNION {{m \in [D -> values] : \A k \in D : m[k] \in allowed(k)} :
            D \in {D \in SUBSET keys : Cardinality(D) <= n}}

Methods == {"GET", "POST", "OPTIONS"}

OkTarget == "https://example.com/"
BlockedTarget == "http://192.168.1.5/admin"

QueryValues(k) ==
    IF k = "url" THEN {"", OkTarget, BlockedTarget, "example.com"}
    ELSE {Secret, "wrong"}

QueryChoices ==
    {JNull} \cup {Obj(m) : m \in Maps({"url", "key"}, 2,
                                     QueryValues("url") \cup QueryValues("key"),
                                     QueryValues)}

MaxHeaders == 2

HeaderNames ==
    {"host", "Host", "HOST", "x-proxy-key", "X-Proxy-Key", "X-PROXY-KEY", "cookie"}

HeaderValues(k) ==
    IF toLowerCase(k) = "x-proxy-key" THEN {Secret, "wrong"}
    ELSE IF toLowerCase(k) = "host" THEN {"proxy.example"}
    ELSE {"sid=1"}

HeaderChoices ==
    {JNull} \cup {Obj(m) : m \in Maps(HeaderNames, MaxHeaders,
                                     {Secret, "wrong", "proxy.example", "sid=1"},
                                     HeaderValues)}

BodyChoices ==
    {Undefined,
     Str("{\"url\":\"https://example.com/\"}"),
     Str("{\"x\":\"1\",\"url\":\"http://LOCALHOST:8080/\"}"),
     Str("{\"x\":1}"),
     Str("null"),
     Str("url=https://example.com/")}

Events ==
    [httpMethod : Methods, queryStringParameters : QueryChoices,
     headers : HeaderChoices, body : BodyChoices, isBase64Encoded : {FALSE}]

\* The upstream header names, in the order a Headers iterates them, each
\* with the values the model gives it.
UpstreamHeaderNames ==
    <<"access-control-allow-origin", "access-control-expose-headers",
      "cache-control", "content-security-policy",
      "content-security-policy-report-only", "content-type", "etag",
      "set-cookie", "transfer-encoding", "x-frame-options">>

UpstreamHeaderValues(k) ==
    CASE k = "access-control-allow-origin" -> {"https://up.example"}
      [] k = "access-control-expose-headers" -> {"etag"}
      [] k = "content-type" ->
            {"text/html", " Text/HTML ; charset=iso-8859-1", "image/png",
             "application/xhtml+xml"}
      [] OTHER -> {"v"}

MaxUpstreamHeaders == 2

\* The entries of m in the order of UpstreamHeaderNames, from position i on.
RECURSIVE Entries(_, _)
Entries(m, i) ==
    IF i > Len(UpstreamHeaderNames) THEN <<>>
    ELSE (IF UpstreamHeaderNames[i] \in DOMAIN m
          THEN <<[k |-> UpstreamHeaderNames[i], v |-> m[UpstreamHeaderNames[i]]]>>
          ELSE <<>>)
         \o Entries(m, i + 1)

UpstreamHeaderChoices ==
    {Entries(m, 1) :
        m \in Maps({UpstreamHeaderNames[i] : i \in 1..Len(UpstreamHeaderNames)},
                   MaxUpstreamHeaders,
                   UNION {UpstreamHeaderValues(UpstreamHeaderNames[i]) :
                            i \in 1..Len(UpstreamHeaderNames)},
                   UpstreamHeaderValues)}

LinkChoices == {<<>>, <<"/about", "#top", "", "../img/a.png">>}

Upstreams ==
    [status : {200, 404}, headers : UpstreamHeaderChoices,
     url : {"", "https://www.example.com/dir/page.html"},
     links : LinkChoices, bytes : {"bytes"}]

\* The upstream responses of the specification that varies the event.
CommonUpstreams ==
    {[status |-> 200,
      headers |-> <<[k |-> "content-type", v |-> "text/html"],
                    [k |-> "set-cookie", v |-> "v"]>>,
      url |-> "https://www.example.com/dir/page.html",
      links |-> <<"/about", "#top", "", "../img/a.png">>, bytes |-> "bytes"],
     [status |-> 401,
      headers |-> <<[k |-> "content-type", v |-> "image/png"]>>,
      url |-> "", links |-> <<>>, bytes |-> "bytes"]}

\* The events of the specification that varies the upstream response.
RelayEvents ==
    [httpMethod : {"GET", "POST"},
     queryStringParameters :
        {Obj([url |-> "https://example.com/dir/page.html", key |-> Secret])},
     headers : {Obj([cookie |-> "sid=1", host |-> "proxy.example"])},
     body : {Str("payload")}, isBase64Encoded : BOOLEAN]

ApiKeys == {JNull, Str(Secret)}

(***************************************************************************)
(* The handler as a state machine: one invocation, from the call to the    *)
(* value returned.                                                         *)
(***************************************************************************)
Idle(vs) == UNCHANGED <<guardVars, rewriteVars, vs>>

InitHandler ==
    /\ API_KEY \in ApiKeys
    /\ pc = "idle" /\ event = <<>> /\ steps = <<>>
    /\ fetches = <<>> /\ upstream = <<>> /\ response = <<>>
    /\ GuardIdle /\ RewriteIdle

\* The handler is called with an event of evs and runs to its first await
\* or to its return.
InvokeWith(evs) ==
    /\ pc = "idle"
    /\ \E ev \in evs :
        LET h == HandlerStart(ev, API_KEY)
        IN  /\ event' = ev
            /\ steps' = h.steps
            /\ response' = h.response
            /\ fetches' = h.fetches
            /\ pc' = IF h.response = <<>> THEN "fetching" ELSE "done"
    /\ Idle(<<API_KEY, upstream>>)

\* fetch resolves with a response of ups; the handler transforms it and
\* returns.
ResolveWith(ups) ==
    /\ pc = "fetching"
    /\ NewUrl(fetches[1].url).scheme \in {"http", "https"}
    /\ \E res \in ups :
        /\ upstream' = <<res>>
        /\ response' = <<HandlerRelay(res, fetches[1].url)>>
    /\ steps' = steps \o <<"Transforming", "Responding">>
    /\ pc' = "done"
    /\ Idle(<<API_KEY, event, fetches>>)

\* fetch rejects (a network, DNS or TLS failure, an unsupported scheme); the
\* catch clause returns.
FetchReject ==
    /\ pc = "fetching"
    /\ response' = <<ErrorResponse("TypeError: fetch failed")>>
    /\ steps' = steps \o <<"Erroring">>
    /\ pc' = "done"
    /\ Idle(<<API_KEY, event, fetches, upstream>>)

Invoke == InvokeWith(Events)
FetchResolve == ResolveWith(CommonUpstreams)

Next == Invoke \/ FetchResolve \/ FetchReject

Spec == InitHandler /\ [][Next]_vars

RelayInvoke == InvokeWith(RelayEvents)
RelayResolve == ResolveWith(Upstreams)

NextRelay == RelayInvoke \/ RelayResolve \/ FetchReject

SpecRelay == InitHandler /\ [][NextRelay]_vars

(***************************************************************************)
(* C1, C3, C4, C5, C6, C10: the handler                                    *)
(***************************************************************************)
Invoked == pc # "idle"
Returned401 == response # <<>> /\ response[1].statusCode = 401
Range(seq) == {seq[i] : i \in 1..Len(seq)}

\* The request carries a target: the extraction gives a truthy value.
CarriesTarget(ev) == ExtractTarget(ev).threw = "" /\ Truthy(ExtractTarget(ev).target)

\* The target parses as an absolute URL whose hostname the Host Guard
\* classifies as blocked.
TargetIsBlocked(u) == u.ok /\ isBlockedHost(Str(UrlHostname(u)))

\* C1: for every non-OPTIONS request that carries a target and passes the key
\* check, if the target parses as an absolute URL whose hostname is blocked
\* by the Host Guard, the handler responds with status 403 and the
\* forbidden-host body, and no outbound fetch is issued at any point of the
\* invocation.
C1_BlockedTargetForbidden ==
    (/\ Invoked /\ ~IsPreflight(event) /\ CarriesTarget(event)
     /\ ~KeyRejected(event, API_KEY)
     /\ TargetIsBlocked(NewUrl(JsString(ExtractTarget(event).target))))
        => /\ pc = "done"
           /\ response = <<PlainResponse(403, "Forbidden host")>>
           /\ fetches = <<>>

\* The second end-to-end scenario has run, with a secret configured and
\* the key given.
C1_Witness ==
    /\ pc = "done" /\ API_KEY = Str(Secret)
    /\ event.httpMethod = "GET"
    /\ event.queryStringParameters = Obj([url |-> BlockedTarget, key |-> Secret])
    /\ response # <<>> /\ response[1].statusCode = 403
    /\ fetches = <<>>

\* The request gives the secret: in a header named X-Proxy-Key in any
\* letter case, or in the key query parameter.
GivesSecret(ev, secret) ==
    \/ /\ Truthy(ev.headers)
       /\ \E k \in DOMAIN ev.headers.m :
            toLowerCase(k) = "x-proxy-key" /\ ev.headers.m[k] = secret
    \/ Get(QueryParams(ev), "key") = Str(secret)

\* C3 as claimed: when a secret is configured, a non-OPTIONS request with a
\* target gets status 401 and triggers no fetch if and only if neither its
\* X-Proxy-Key header (header names being case-insensitive) nor its key
\* query parameter equals the secret, and a request that gives the secret
\* proceeds to target validation; when no secret is configured no request is
\* answered 401.
C3_KeyCheck ==
    Invoked /\ ~IsPreflight(event) /\ CarriesTarget(event) =>
        IF Truthy(API_KEY)
        THEN /\ Returned401 <=> ~GivesSecret(event, API_KEY.s)
             /\ Returned401 => fetches = <<>>
             /\ ~Returned401 => "ValidatingTarget" \in Range(steps)
        ELSE ~Returned401

\* C4 as claimed: every response the handler returns carries
\* access-control-allow-origin: *.
C4_AlwaysAllowOrigin ==
    response # <<>> =>
        /\ OmHas(response[1].headers, AllowOrigin)
        /\ OmGet(response[1].headers, AllowOrigin) = "*"

\* The url field of the JSON text of a body: a JavaScript value, undefined
\* when the body is not JSON, is not a JSON object or has no url field.
BodyUrl(r) ==
    IF r.ok /\ r.v.t = "object" /\ "url" \in DOMAIN r.v.m THEN r.v.m["url"]
    ELSE Undefined

\* Neither the url query parameter nor the body yields a target.
NoTarget(ev) ==
    /\ "url" \notin DOMAIN QueryParams(ev)
    /\ \/ ev.body = Undefined
       \/ BodyUrl(JSONparse(ev.body.s)) = Undefined

\* C5 as claimed: for every non-OPTIONS request the target is the url query
\* parameter or, when that parameter is absent, the url field of the JSON
\* body; whenever neither yields a target (no query parameter and a body
\* that is absent, is not JSON, is JSON without a url field or is a JSON
\* non-object such as null) the handler responds with status 400 and the
\* missing-parameter body and issues no fetch.
C5_TargetOrMissing ==
    Invoked /\ ~IsPreflight(event) =>
        /\ NoTarget(event) =>
            /\ response = <<PlainResponse(400, "Missing url parameter")>>
            /\ fetches = <<>>
        /\ fetches # <<>> =>
            IF Truthy(Get(QueryParams(event), "url"))
            THEN fetches[1].url = QueryParams(event)["url"]
            ELSE /\ event.body # Undefined
                 /\ Str(fetches[1].url) = BodyUrl(JSONparse(event.body.s))

\* C6: a request whose method is OPTIONS always yields status 204 with an
\* empty body, whatever its query parameters, body, headers or the configured
\* secret; the target is never inspected, the key never checked and no fetch
\* issued.  It is the only path that reaches Responding without passing
\* through target validation and fetch.
C6_PreflightShortCircuit ==
    Invoked =>
        /\ event.httpMethod = "OPTIONS" =>
            /\ pc = "done"
            /\ response # <<>> /\ response[1].statusCode = 204
            /\ response[1].body = TextBody("")
            /\ steps = <<"ReceivingRequest", "Responding">>
            /\ fetches = <<>>
        /\ (event.httpMethod # "OPTIONS" /\ "Responding" \in Range(steps)) =>
            /\ "ValidatingTarget" \in Range(steps)
            /\ "Fetching" \in Range(steps)
            /\ fetches # <<>>

\* A preflight with a secret configured, no key and a body that is not an
\* object has been answered.
C6_Witness ==
    /\ pc = "done" /\ API_KEY = Str(Secret)
    /\ event.httpMethod = "OPTIONS"
    /\ event.queryStringParameters = Obj([url |-> BlockedTarget])
    /\ event.headers = JNull
    /\ event.body = Str("null")
    /\ response = <<PreflightResponse>>

\* C10 as claimed: the headers of the outbound fetch are exactly the inbound
\* request headers without every header whose name is host in any letter
\* case; every other inbound header is forwarded with its value unchanged.
C10_HostStripped ==
    fetches # <<>> =>
        LET inbound == IF Truthy(event.headers) THEN event.headers.m ELSE <<>>
        IN  fetches[1].headers =
                [k \in {n \in DOMAIN inbound : toLowerCase(n) # "host"} |-> inbound[k]]

(***************************************************************************)
(* C7: the relayed headers                                                 *)
(***************************************************************************)
Relayed == pc = "done" /\ upstream # <<>>

FilteredNames ==
    {"content-security-policy", "content-security-policy-report-only",
     "x-frame-options", "set-cookie", "transfer-encoding"}

NoFilteredName(out) == \A i \in 1..Len(out) : toLowerCase(out[i].k) \notin FilteredNames

\* The upstream header e is in out with its value, or, on the HTML path,
\* is content-type.
Kept(e, out, html) ==
    /\ OmHas(out, e.k)
    /\ OmGet(out, e.k) = e.v \/ (html /\ e.k = "content-type")

\* The names the access-control-expose-headers value of out lists.
Exposed(out) == Range(split(OmGet(out, ExposeHeaders), ","))

\* C7 as claimed: in every relayed response the outbound headers hold no
\* header whose name, compared case-insensitively, is one of the five
\* filtered names; every other upstream header is present with its value
\* unchanged, except content-type on the HTML path; and the
\* access-control-expose-headers value names every key of the outbound
\* headers.
C7_RelayedHeaders ==
    Relayed =>
        LET out == response[1].headers
            up == upstream[1].headers
        IN  /\ NoFilteredName(out)
            /\ \A j \in 1..Len(up) :
                toLowerCase(up[j].k) \notin FilteredNames
                    => Kept(up[j], out, response[1].body.kind = "html")
            /\ OmHas(out, ExposeHeaders)
            /\ \A i \in 1..Len(out) : out[i].k \in Exposed(out)

\* C7 as amended: in every relayed response the outbound headers hold no
\* header whose name, compared case-insensitively, is one of the five
\* filtered names; every other upstream header, except
\* access-control-allow-origin and access-control-expose-headers, is present
\* with its value unchanged, except content-type on the HTML path;
\* access-control-allow-origin is *; and the access-control-expose-headers
\* value names every key of the outbound headers other than
\* access-control-expose-headers itself.
C7_RelayedHeadersButCors ==
    Relayed =>
        LET out == response[1].headers
            up == upstream[1].headers
        IN  /\ NoFilteredName(out)
            /\ \A j \in 1..Len(up) :
                toLowerCase(up[j].k) \notin FilteredNames \cup {AllowOrigin, ExposeHeaders}
                    => Kept(up[j], out, response[1].body.kind = "html")
            /\ OmHas(out, AllowOrigin) /\ OmGet(out, AllowOrigin) = "*"
            /\ OmHas(out, ExposeHeaders)
            /\ \A i \in 1..Len(out) :
                out[i].k # ExposeHeaders => out[i].k \in Exposed(out)

\* An HTML response that set a cookie has been relayed.
C7_Witness ==
    /\ Relayed
    /\ upstream[1].headers = <<[k |-> "content-type", v |-> "text/html"],
                               [k |-> "set-cookie", v |-> "v"]>>
    /\ response[1].headers =
        <<[k |-> "content-type", v |-> "text/html; charset=utf-8"],
          [k |-> AllowOrigin, v |-> "*"],
          [k |-> ExposeHeaders, v |-> "content-type,access-control-allow-origin"]>>
    /\ response[1].body.kind = "html"

(***************************************************************************)
(* C2                                                                      *)
(***************************************************************************)
RECURSIVE DecimalValue(_)
DecimalValue(s) ==
    IF s = "" THEN 0
    ELSE 10 * DecimalValue(SubSeq(s, 1, Len(s) - 1))
            + (IndexOfChar(Digits, CharAt(s, Len(s))) - 1)

\* The second octet of a dotted host that starts with "172.": the characters
\* up to the next dot, when there is one and they are a decimal numeral
\* without a leading zero; -1 otherwise.
SecondOctet(h) ==
    LET rest == SubSeq(h, 5, Len(h))
        dot == IndexOfChar(rest, ".")
        oct == SubSeq(rest, 1, dot - 1)
    IN  IF /\ dot > 1
           /\ \A i \in 1..Len(oct) : IsDigit(CharAt(oct, i))
           /\ (Len(oct) > 1 => CharAt(oct, 1) # "0")
        THEN DecimalValue(oct)
        ELSE -1

BlockedClass(hostname) ==
    \/ hostname \in {Undefined, JNull}
    \/ hostname.s = ""
    \/ toLowerCase(hostname.s) = "localhost"
    \/ \E p \in {"127.", "10.", "192.168.", "0."} : startsWith(hostname.s, p)
    \/ startsWith(hostname.s, "172.") /\ SecondOctet(hostname.s) \in 16..31
    \/ endsWith(toLowerCase(hostname.s), ".local")

\* C2: isBlockedHost(hostname) is true exactly when the hostname is empty or
\* absent, is localhost in any letter case, starts with 127., 10., 192.168. or
\* 0., starts with 172. followed by a second octet in 16..31, or ends with
\* .local in any letter case; in particular it is true of the blocked example
\* hosts and false of the allowed example hosts.
C2_BlockedExactly ==
    gCalled =>
        /\ gResult = BlockedClass(gHost)
        /\ (gHost.t = "string" /\ gHost.s \in BlockedExamples => gResult)
        /\ (gHost.t = "string" /\ gHost.s \in AllowedExamples => ~gResult)

C2_Witness == gCalled /\ gHost = Str("172.31.255.255") /\ gResult = TRUE

(***************************************************************************)
(* The inputs of the URL Rewriter                                          *)
(***************************************************************************)
MaxPathSegments == 2

PathSegments == {"", "x", "..", "%7e"}

\* The paths of at most n segments, each segment led by a slash.
RECURSIVE PathStrings(_)
PathStrings(n) ==
    IF n = 0 THEN {""}
    ELSE LET shorter == PathStrings(n - 1)
         IN  shorter \cup {p \o "/" \o seg : p \in shorter, seg \in PathSegments}

Origins == {"http://a.io", "HTTP://A.io", "https://b.io:443", "http://192.168.1.5:8080"}
Queries == {"", "?q=1", "?u=%2Fa&v=b+c"}
Fragments == {"", "#f"}

\* Absolute URL strings that are valid by the URL standard's grammar: a
\* scheme, "//", a host, an optional port, a path of URL units, an optional
\* query and fragment.
ValidAbsoluteUrls ==
    {o \o p \o q \o f :
        o \in Origins, p \in PathStrings(MaxPathSegments),
        q \in Queries, f \in Fragments}
        \cup {"mailto:a@b.com", "javascript:alert(1)",
              "data:image/png;base64,AAA", "tel:123", "https://example.com"}

RelativePrefixes == {"", "/", "//c.io", "..", "x", "https:", "http:", "HTTPS:/"}

OtherAttrValues ==
    {r \o p \o q : r \in RelativePrefixes, p \in PathStrings(1), q \in Queries}
        \cup {"#section", " JavaScript:void(0)", "MAILTO:a@b.com",
              "../img/a.png", "/about",
              "http://", "//", "http://a b/", "http://a.io:x/", "http://1.2.3.4.5/",
              "http://a.io/y z", " http://a.io/x ", "http://a.io/?q=a b#c d",
              "/.netlify/functions/proxy?url=https%3A%2F%2Fa.io%2F"}

AttrValues == ValidAbsoluteUrls \cup OtherAttrValues

BaseUrls ==
    {"https://example.com/dir/page.html", "http://a.io/", "https://b.io/p/?q=1#f"}

InitRewrite ==
    /\ rAttr \in AttrValues /\ rBase \in BaseUrls
    /\ rStage = 0 /\ rOut1 = "" /\ rOut2 = ""
    /\ GuardIdle /\ HandlerIdle

\* The rewrite of an attribute value of the upstream page.
RewriteFirst ==
    /\ rStage = 0
    /\ rStage' = 1
    /\ rOut1' = maybeRewriteUrl(rAttr, rBase)
    /\ UNCHANGED <<rAttr, rBase, rOut2, guardVars, handlerVars>>

\* The rewrite of the value the first rewrite returned.
RewriteSecond ==
    /\ rStage = 1
    /\ rStage' = 2
    /\ rOut2' = maybeRewriteUrl(rOut1, rBase)
    /\ UNCHANGED <<rAttr, rBase, rOut1, guardVars, handlerVars>>

NextRewrite == RewriteFirst \/ RewriteSecond

SpecRewrite == InitRewrite /\ [][NextRewrite]_vars

(***************************************************************************)
(* C8, C9                                                                  *)
(***************************************************************************)
\* String.fromCharCode, for the codes 0x20..0x5F and 0x61..0x7E.
FromCharCode(n) ==
    IF n < 96 THEN CharAt(AsciiLow, n - 31) ELSE CharAt(AsciiHigh, n - 96)

\* The code point the escape at the start of part names, part being what
\* follows a "%": -1 when two hexadecimal digits do not start it.
EscapeCode(part) ==
    IF Len(part) < 2 THEN -1
    ELSE IF HexValue(CharAt(part, 1)) < 0 \/ HexValue(CharAt(part, 2)) < 0 THEN -1
    ELSE 16 * HexValue(CharAt(part, 1)) + HexValue(CharAt(part, 2))

IsModelledCode(code) == code >= 32 /\ code <= 126 /\ code # 96

\* The text after a "%", decoded: the character of the escape and the rest.
DecodePart(part) == FromCharCode(EscapeCode(part)) \o SubSeq(part, 3, Len(part))

\* parts are the pieces of a text between its "%" characters.
DecodeParts(parts) ==
    IF \E i \in 2..Len(parts) : ~IsModelledCode(EscapeCode(parts[i]))
    THEN [ok |-> FALSE]
    ELSE [ok |-> TRUE,
          s |-> join([i \in 1..Len(parts) |->
                        IF i = 1 THEN parts[1] ELSE DecodePart(parts[i])], "")]

\* The percent-decoding the claims speak of, decodeURIComponent:
\* [ok |-> TRUE, s |-> decoded], or [ok |-> FALSE] where JavaScript throws
\* URIError (a % that two hex digits do not follow).  An escape of a byte
\* outside 0x20..0x7E is outside the modelled inputs and is reported as not
\* ok.
decodeURIComponent(s) == DecodeParts(split(s, "%"))

IsProxyLink(link) == startsWith(link, ProxyPath)

\* The value of the url parameter of a proxy-relative link, percent-decoded:
\* [ok, s].
EmbeddedTarget(link) ==
    LET rest == SubSeq(link, Len(ProxyPath) + 1, Len(link))
    IN  decodeURIComponent(SubSeq(rest, 1, FirstOf(rest, {"&", "#"}) - 1))

\* C8 as claimed: for every attribute value that is rewritten, rewriting the
\* proxy-relative link a second time gives a link whose embedded url
\* parameter decodes to the same absolute target as the first rewrite's.
C8_Idempotent ==
    rStage = 2 /\ rOut1 # rAttr =>
        /\ IsProxyLink(rOut2)
        /\ EmbeddedTarget(rOut2) = EmbeddedTarget(rOut1)

\* C9 as claimed: for every valid absolute URL u and base b, decoding the url
\* parameter embedded in maybeRewriteUrl(u, b) gives back u, character for
\* character.
C9_RoundTripExact ==
    rStage >= 1 /\ rAttr \in ValidAbsoluteUrls =>
        /\ IsProxyLink(rOut1)
        /\ EmbeddedTarget(rOut1) = [ok |-> TRUE, s |-> rAttr]

\* C9 as amended: for every valid absolute URL u that the rewriter rewrites
\* (one that does not start with data:, javascript: or mailto:) and every
\* base b, decoding the url parameter embedded in maybeRewriteUrl(u, b) gives
\* back the normalized serialization of u (new URL(u).href), which is u
\* itself whenever u is already normalized; a valid absolute URL that starts
\* with data:, javascript: or mailto: is returned unchanged.
C9_RoundTripNormalized ==
    rStage >= 1 /\ rAttr \in ValidAbsoluteUrls =>
        IF shouldRewriteAttr(rAttr)
        THEN /\ IsProxyLink(rOut1)
             /\ EmbeddedTarget(rOut1) = [ok |-> TRUE, s |-> href(NewUrl(rAttr))]
             /\ (href(NewUrl(rAttr)) = rAttr => EmbeddedTarget(rOut1).s = rAttr)
        ELSE rOut1 = rAttr

\* A valid absolute URL that normalization changes has been rewritten.
C9_Witness ==
    /\ rStage = 1
    /\ rAttr = "HTTP://A.io/../%7e?u=%2Fa&v=b+c#f"
    /\ rBase = "https://example.com/dir/page.html"
    /\ rOut1 = "/.netlify/functions/proxy?url=http%3A%2F%2Fa.io%2F%257e%3Fu%3D%252Fa%26v%3Db%2Bc%23f"

====
